---- MODULE Spec2Model ----
(***************************************************************************)
(* State-machine model of SlicerNNUNetLib/Parameter.py: the Parameter      *)
(* dataclass (nnUNet inference configuration), its validation against the  *)
(* model directory on disk, its projection to the nnUNet argument list,    *)
(* its persistence in a settings store and the reading of the dataset      *)
(* labels.                                                                 *)
(*                                                                         *)
(* Conventions.  Python str values are TLA+ strings.  A pathlib.Path is    *)
(* represented by its normalised text (what str(path) gives), the disk by  *)
(* the set of the paths that exist on it.  A Python exception leaving an   *)
(* operation is recorded in ret.raised.                                    *)
(***************************************************************************)
EXTENDS Integers, Sequences, FiniteSets, TLC

VARIABLES
    self,       \* the Parameter instance: a record of its eight fields
    disk,       \* the paths that exist on the file system
    labelsFile, \* dataset.json: has it a "labels" field, and its members as written
    machine,    \* the running machine: which torch back ends are available
    store,      \* the QSettings store: key -> stored text
    ret         \* what the last call returned or raised

vars == <<self, disk, labelsFile, machine, store, ret>>

(***************************************************************************)
(* Bounds of the model.                                                    *)
(***************************************************************************)
\* longest text typed into the folds field
MaxFoldsLen == 3
\* most members of "labels" in dataset.json
MaxLabels == 2

(***************************************************************************)
(* Python str and list primitives.                                         *)
(***************************************************************************)
Char(s, i) == SubSeq(s, i, i)

Whitespace == {" "}
Digits == {"0", "1"}

DigitValue(c) == IF c = "0" THEN 0 ELSE 1

\* str.strip(): leading and trailing whitespace removed
RECURSIVE LStrip(_)
LStrip(s) ==
    IF Len(s) > 0 /\ Char(s, 1) \in Whitespace
    THEN LStrip(SubSeq(s, 2, Len(s)))
    ELSE s

RECURSIVE RStrip(_)
RStrip(s) ==
    IF Len(s) > 0 /\ Char(s, Len(s)) \in Whitespace
    THEN RStrip(SubSeq(s, 1, Len(s) - 1))
    ELSE s

Strip(s) == RStrip(LStrip(s))

\* str.split(sep) with an explicit separator: the pieces between the
\* non-overlapping occurrences of sep, scanned left to right; "" gives [""]
RECURSIVE SplitFrom(_, _, _, _)
SplitFrom(s, sep, start, i) ==
    IF i + Len(sep) - 1 > Len(s)
    THEN <<SubSeq(s, start, Len(s))>>
    ELSE IF SubSeq(s, i, i + Len(sep) - 1) = sep
         THEN <<SubSeq(s, start, i - 1)>>
              \o SplitFrom(s, sep, i + Len(sep), i + Len(sep))
         ELSE SplitFrom(s, sep, start, i + 1)

Split(s, sep) == SplitFrom(s, sep, 1, 1)

\* sep.join(parts)
RECURSIVE Join(_, _)
Join(parts, sep) ==
    IF Len(parts) = 0 THEN ""
    ELSE IF Len(parts) = 1 THEN parts[1]
    ELSE parts[1] \o sep \o Join(Tail(parts), sep)

\* int(text) accepts surrounding whitespace around a non-empty run of digits
\* and raises ValueError on anything else the alphabet of the model can spell
IsIntText(t) ==
    LET u == Strip(t)
    IN  /\ Len(u) > 0
        /\ \A i \in 1..Len(u) : Char(u, i) \in Digits

RECURSIVE DigitsToInt(_)
DigitsToInt(u) ==
    IF Len(u) = 0 THEN 0
    ELSE 10 * DigitsToInt(SubSeq(u, 1, Len(u) - 1)) + DigitValue(Char(u, Len(u)))

IntOf(t) == DigitsToInt(Strip(t))

(***************************************************************************)
(* pathlib primitives on normalised path texts.                            *)
(***************************************************************************)
RECURSIVE DropDots(_)
DropDots(parts) ==
    IF Len(parts) = 0 THEN <<>>
    ELSE IF Head(parts) \in {"", "."} THEN DropDots(Tail(parts))
    ELSE <<Head(parts)>> \o DropDots(Tail(parts))

\* Path(text): empty and "." components dropped, the empty path is "."
PathOf(text) ==
    LET parts == DropDots(Split(text, "/"))
        body == Join(parts, "/")
    IN  IF Len(text) > 0 /\ Char(text, 1) = "/" THEN "/" \o body
        ELSE IF body = "" THEN "." ELSE body

IsAbsolute(text) == Len(text) > 0 /\ Char(text, 1) = "/"

\* path.joinpath(name): an absolute name replaces the path
JoinPath(path, name) ==
    LET n == PathOf(name)
    IN  IF IsAbsolute(name) \/ path = "." THEN n
        ELSE IF n = "." THEN path
        ELSE IF path = "/" THEN "/" \o n
        ELSE path \o "/" \o n

\* the position of the last "/" of s[1..i], 0 when there is none
RECURSIVE LastSlash(_, _)
LastSlash(s, i) ==
    IF i = 0 THEN 0
    ELSE IF Char(s, i) = "/" THEN i
    ELSE LastSlash(s, i - 1)

\* path.name: the last component, "" for "." and for the root
PathName(path) ==
    IF path = "." THEN ""
    ELSE SubSeq(path, LastSlash(path, Len(path)) + 1, Len(path))

\* path.parent: the path without its last component
PathParent(path) ==
    LET k == LastSlash(path, Len(path))
    IN  IF k = 0 THEN "."
        ELSE IF k = 1 THEN "/"
        ELSE SubSeq(path, 1, k - 1)

\* path.exists()
Exists(path) == path \in disk

\* is entry strictly below the directory dir
IsBelow(entry, dir) ==
    IF dir = "." THEN ~IsAbsolute(entry)
    ELSE /\ Len(entry) > Len(dir) + 1
         /\ SubSeq(entry, 1, Len(dir) + 1) = dir \o "/"

\* the last component of entry is name
HasName(entry, name) ==
    \/ entry = name
    \/ /\ Len(entry) > Len(name)
       /\ SubSeq(entry, Len(entry) - Len(name), Len(entry)) = "/" \o name

\* what path.rglob(name) yields
RGlob(path, name) ==
    IF Exists(path)
    THEN {e \in disk : IsBelow(e, path) /\ HasName(e, name)}
    ELSE {}

(***************************************************************************)
(* The Parameter dataclass.                                                *)
(***************************************************************************)
Devices == {"cuda", "cpu", "mps"}

\* Parameter(): the field defaults
DefaultParameter ==
    [folds |-> "",
     device |-> "cuda",
     stepSize |-> "0.5",
     disableTta |-> TRUE,
     nProcessPreprocessing |-> 1,
     nProcessSegmentationExport |-> 1,
     checkPointName |-> "",
     modelPath |-> "."]

\* None, where a path is expected: no normalised path text is empty
NonePath == ""

_getCheckpointName(p) ==
    IF p.checkPointName # "" THEN p.checkPointName ELSE "checkpoint_final.pth"

\* next(modelPath.rglob("dataset.json")), None on StopIteration
_datasetPath(p) ==
    LET found == RGlob(p.modelPath, "dataset.json")
    IN  IF found = {} THEN NonePath ELSE CHOOSE e \in found : TRUE

_isDatasetPathValid(p) == _datasetPath(p) # NonePath

_configurationFolder(p) == PathParent(_datasetPath(p))

_datasetFolder(p) == PathParent(_configurationFolder(p))

_datasetName(p) == PathName(_datasetFolder(p))

_configurationNameParts(p) == Split(PathName(_configurationFolder(p)), "__")

\* the pieces int() is applied to in _foldsAsList
FoldPieces(p) == Split(Strip(p.folds), ",")

\* _foldsAsList raises ValueError: int() rejects one of the pieces
FoldsRaise(p) ==
    LET pieces == FoldPieces(p)
    IN  /\ p.folds # ""
        /\ \E i \in 1..Len(pieces) : ~IsIntText(pieces[i])

_foldsAsList(p) ==
    LET pieces == FoldPieces(p)
    IN  IF p.folds # ""
        THEN [i \in 1..Len(pieces) |-> IntOf(pieces[i])]
        ELSE <<0>>

\* f"fold_{fold}"
FoldName(fold) == "fold_" \o ToString(fold)

\* every requested fold reported, present or not
_getMissingFoldsUnfiltered(p) == _foldsAsList(p)

_getMissingFolds(p) ==
    LET folder == _configurationFolder(p)
        IsMissing(fold) == ~Exists(JoinPath(folder, FoldName(fold)))
    IN  SelectSeq(_foldsAsList(p), IsMissing)

_getFoldsWithInvalidWeights(p) ==
    LET folder == _configurationFolder(p)
        name == _getCheckpointName(p)
        IsInvalid(fold) == ~Exists(JoinPath(JoinPath(folder, FoldName(fold)), name))
    IN  SelectSeq(_foldsAsList(p), IsInvalid)

(***************************************************************************)
(* isValid.  The reason texts are kept as the parts their f-strings are    *)
(* built from.                                                             *)
(***************************************************************************)
NoReason == [kind |-> "", modelPath |-> "", checkPointName |-> "", folds |-> <<>>]

DatasetMissingReason(p) ==
    [kind |-> "Dataset.json file is missing", modelPath |-> p.modelPath,
     checkPointName |-> "", folds |-> <<>>]

MissingFoldsReason(folds) ==
    [kind |-> "Model folder is missing the following folds", modelPath |-> "",
     checkPointName |-> "", folds |-> folds]

InvalidWeightsReason(p, folds) ==
    [kind |-> "Following model folds don't contain weights", modelPath |-> "",
     checkPointName |-> p.checkPointName, folds |-> folds]

ConfigurationFolderReason ==
    [kind |-> "Invalid nnUNet configuration folder", modelPath |-> "",
     checkPointName |-> "", folds |-> <<>>]

Returned(valid, reason) == [raised |-> "none", valid |-> valid, reason |-> reason]

Raised(exception) == [raised |-> exception, valid |-> FALSE, reason |-> NoReason]

\* the folder-name check made before the fold checks
isValidNameFirst(p) ==
    LET missing_folds == _getMissingFolds(p)
        folds_with_invalid_weights == _getFoldsWithInvalidWeights(p)
    IN  IF ~_isDatasetPathValid(p) THEN Returned(FALSE, DatasetMissingReason(p))
        ELSE IF FoldsRaise(p) THEN Raised("ValueError")
        ELSE IF Len(_configurationNameParts(p)) # 3
             THEN Returned(FALSE, ConfigurationFolderReason)
        ELSE IF missing_folds # <<>>
             THEN Returned(FALSE, MissingFoldsReason(missing_folds))
        ELSE IF folds_with_invalid_weights # <<>>
             THEN Returned(FALSE, InvalidWeightsReason(p, folds_with_invalid_weights))
        ELSE Returned(TRUE, NoReason)

isValid(p) ==
    LET missing_folds == _getMissingFolds(p)
        folds_with_invalid_weights == _getFoldsWithInvalidWeights(p)
    IN  IF ~_isDatasetPathValid(p) THEN Returned(FALSE, DatasetMissingReason(p))
        ELSE IF FoldsRaise(p) THEN Raised("ValueError")
        ELSE IF missing_folds # <<>>
             THEN Returned(FALSE, MissingFoldsReason(missing_folds))
        ELSE IF folds_with_invalid_weights # <<>>
             THEN Returned(FALSE, InvalidWeightsReason(p, folds_with_invalid_weights))
        ELSE IF Len(_configurationNameParts(p)) # 3
             THEN Returned(FALSE, ConfigurationFolderReason)
        ELSE Returned(TRUE, NoReason)

(***************************************************************************)
(* asArgList.  An element of the list keeps its Python type.               *)
(***************************************************************************)
StrArg(s) == [t |-> "str", s |-> s]
IntArg(n) == [t |-> "int", s |-> ToString(n)]
FloatArg(x) == [t |-> "float", s |-> x]

\* torch.cuda.is_available()
CudaIsAvailable(m) == m.cuda

\* the configured device passed whatever the machine offers
ArgDeviceAsConfigured(p, m) == p.device

\* device = self.device if torch.cuda.is_available() else "cpu"
ArgDevice(p, m) == IF CudaIsAvailable(m) THEN p.device ELSE "cpu"

\* [str(f) for f in self._foldsAsList()]
FoldArgs(p) ==
    LET folds == _foldsAsList(p)
    IN  [i \in 1..Len(folds) |-> StrArg(ToString(folds[i]))]

\* the flag appended when test-time augmentation is left enabled
TtaArgsInverted(p) == IF p.disableTta THEN <<>> ELSE <<StrArg("--disable_tta")>>

TtaArgs(p) == IF p.disableTta THEN <<StrArg("--disable_tta")>> ELSE <<>>

ArgList(p, inDir, outDir, m) ==
    LET parts == _configurationNameParts(p)
    IN
    <<StrArg("-i"), StrArg(inDir),
      StrArg("-o"), StrArg(outDir),
      StrArg("-d"), StrArg(_datasetName(p)),
      StrArg("-tr"), StrArg(parts[1]),
      StrArg("-p"), StrArg(parts[2]),
      StrArg("-c"), StrArg(parts[Len(parts)]),
      StrArg("-f")>>
    \o FoldArgs(p)
    \o <<StrArg("-npp"), IntArg(p.nProcessPreprocessing),
         StrArg("-nps"), IntArg(p.nProcessSegmentationExport),
         StrArg("-step_size"), FloatArg(p.stepSize),
         StrArg("-device"), StrArg(ArgDevice(p, m)),
         StrArg("-chk"), StrArg(_getCheckpointName(p))>>
    \o TtaArgs(p)

\* the pair isValid returns tested for truth instead of its first element
asArgListPairTruthy(p, inDir, outDir, m) ==
    LET v == isValid(p)
    IN  IF v.raised # "none"
        THEN [raised |-> v.raised, reason |-> NoReason, args |-> <<>>]
        ELSE [raised |-> "none", reason |-> NoReason, args |-> ArgList(p, inDir, outDir, m)]

\* the outcome of asArgList: what it raised, the reason it raised with, the list
asArgList(p, inDir, outDir, m) ==
    LET v == isValid(p)
    IN  IF v.raised # "none"
        THEN [raised |-> v.raised, reason |-> NoReason, args |-> <<>>]
        ELSE IF ~v.valid
        THEN [raised |-> "RuntimeError", reason |-> v.reason, args |-> <<>>]
        ELSE [raised |-> "none", reason |-> NoReason, args |-> ArgList(p, inDir, outDir, m)]

(***************************************************************************)
(* JSON texts and the Python values they decode to.  Both are trees: t is  *)
(* the type, s, n, b the payload of a string, number or boolean, m the     *)
(* members <<key, value>> of an object or dict in their order.             *)
(***************************************************************************)
JString(s) == [t |-> "string", s |-> s, n |-> 0, b |-> FALSE, m |-> <<>>]
JInt(n) == [t |-> "int", s |-> "", n |-> n, b |-> FALSE, m |-> <<>>]
JFloat(x) == [t |-> "float", s |-> x, n |-> 0, b |-> FALSE, m |-> <<>>]
JBool(b) == [t |-> "bool", s |-> "", n |-> 0, b |-> b, m |-> <<>>]
JObject(m) == [t |-> "object", s |-> "", n |-> 0, b |-> FALSE, m |-> m]
JArray == [t |-> "array", s |-> "", n |-> 0, b |-> FALSE, m |-> <<>>]
\* no value stored under a key: settings.value(key, "") gives ""
Absent == [t |-> "absent", s |-> "", n |-> 0, b |-> FALSE, m |-> <<>>]
\* a text that is not JSON
Malformed == [t |-> "malformed", s |-> "{", n |-> 0, b |-> FALSE, m |-> <<>>]

PyStr(s) == [t |-> "str", s |-> s, n |-> 0, b |-> FALSE, m |-> <<>>]
PyInt(n) == [t |-> "int", s |-> "", n |-> n, b |-> FALSE, m |-> <<>>]
PyFloat(x) == [t |-> "float", s |-> x, n |-> 0, b |-> FALSE, m |-> <<>>]
PyBool(b) == [t |-> "bool", s |-> "", n |-> 0, b |-> b, m |-> <<>>]
PyPath(s) == [t |-> "Path", s |-> s, n |-> 0, b |-> FALSE, m |-> <<>>]
PyDict(m) == [t |-> "dict", s |-> "", n |-> 0, b |-> FALSE, m |-> m]
PyList == [t |-> "list", s |-> "", n |-> 0, b |-> FALSE, m |-> <<>>]
\* an exception raised while a value was being built
PyRaise(exception) == [t |-> "raise", s |-> exception, n |-> 0, b |-> FALSE, m |-> <<>>]

HasKey(m, key) == \E i \in 1..Len(m) : m[i][1] = key

\* dict[key]: the last member written under the key
Lookup(m, key) ==
    m[CHOOSE i \in 1..Len(m) :
        /\ m[i][1] = key
        /\ \A j \in (i + 1)..Len(m) : m[j][1] # key][2]

\* asdict(self): the fields in their order, each with its declared type
asDict(p) ==
    PyDict(<< <<"folds", PyStr(p.folds)>>,
              <<"device", PyStr(p.device)>>,
              <<"stepSize", PyFloat(p.stepSize)>>,
              <<"disableTta", PyBool(p.disableTta)>>,
              <<"nProcessPreprocessing", PyInt(p.nProcessPreprocessing)>>,
              <<"nProcessSegmentationExport", PyInt(p.nProcessSegmentationExport)>>,
              <<"checkPointName", PyStr(p.checkPointName)>>,
              <<"modelPath", PyPath(p.modelPath)>> >>)

\* the path written as a bare string
PathEncoderDefaultAsString(obj) == PyStr(obj.s)

\* _PathEncoder.default: {'_path': str(obj)}
PathEncoderDefault(obj) == PyDict(<< <<"_path", PyStr(obj.s)>> >>)

\* json.dumps(value, cls=_PathEncoder)
RECURSIVE Dumps(_)
Dumps(v) ==
    IF v.t = "str" THEN JString(v.s)
    ELSE IF v.t = "int" THEN JInt(v.n)
    ELSE IF v.t = "float" THEN JFloat(v.s)
    ELSE IF v.t = "bool" THEN JBool(v.b)
    ELSE IF v.t = "dict"
         THEN JObject([i \in 1..Len(v.m) |-> <<v.m[i][1], Dumps(v.m[i][2])>>])
    ELSE Dumps(PathEncoderDefault(v))

\* _PathEncoder.decodePath; Path(x) raises TypeError unless x is a str
DecodePath(obj) ==
    IF HasKey(obj.m, "_path")
    THEN IF Lookup(obj.m, "_path").t = "str"
         THEN PyPath(PathOf(Lookup(obj.m, "_path").s))
         ELSE PyRaise("TypeError")
    ELSE obj

\* json.loads(text, object_hook=_PathEncoder.decodePath) on a well-formed text
RECURSIVE Loads(_)
Loads(j) ==
    IF j.t = "string" THEN PyStr(j.s)
    ELSE IF j.t = "int" THEN PyInt(j.n)
    ELSE IF j.t = "float" THEN PyFloat(j.s)
    ELSE IF j.t = "bool" THEN PyBool(j.b)
    ELSE IF j.t = "array" THEN PyList
    ELSE LET members == [i \in 1..Len(j.m) |-> <<j.m[i][1], Loads(j.m[i][2])>>]
         IN  IF \E i \in 1..Len(members) : members[i][2].t = "raise"
             THEN members[CHOOSE i \in 1..Len(members) : members[i][2].t = "raise"][2]
             ELSE DecodePath(PyDict(members))

(***************************************************************************)
(* toSettings and fromSettings.                                            *)
(***************************************************************************)
\* _defaultSettingsKey()
_defaultSettingsKey == "SlicerNNUNet/Parameter"

\* key or self._defaultSettingsKey()
EffectiveKey(key) == IF key # "" THEN key ELSE _defaultSettingsKey

\* what toSettings stores under the key
SettingsText(p) == Dumps(asDict(p))

\* the declared type of each field of the parameter pack
FieldType ==
    [folds |-> "str", device |-> "str", stepSize |-> "float", disableTta |-> "bool",
     nProcessPreprocessing |-> "int", nProcessSegmentationExport |-> "int",
     checkPointName |-> "str", modelPath |-> "Path"]

\* instance.setValue(k, v) raises TypeError: no such field, or a value of another type
SetValueRaises(k, v) ==
    \/ k \notin DOMAIN FieldType
    \/ v.t # FieldType[k]

\* the field value a Python value stands for
FieldValue(v) ==
    IF v.t = "int" THEN v.n
    ELSE IF v.t = "bool" THEN v.b
    ELSE v.s

\* the loop of fromSettings over the first n items: setValue, TypeError skipped
RECURSIVE ApplyItems(_, _, _)
ApplyItems(instance, m, n) ==
    IF n = 0 THEN instance
    ELSE LET before == ApplyItems(instance, m, n - 1)
             k == m[n][1]
             v == m[n][2]
         IN  IF SetValueRaises(k, v) THEN before
             ELSE [before EXCEPT ![k] = FieldValue(v)]

\* the outcome of fromSettings: what it raised, the instance it returned
fromSettings(settings, key) ==
    LET val == settings[EffectiveKey(key)]
        val_dict == IF val.t = "absent" THEN PyDict(<<>>)
                    ELSE IF val.t = "malformed" THEN PyRaise("JSONDecodeError")
                    ELSE Loads(val)
    IN  IF val_dict.t = "raise"
        THEN [raised |-> val_dict.s, instance |-> DefaultParameter]
        ELSE IF val_dict.t # "dict"
        THEN [raised |-> "AttributeError", instance |-> DefaultParameter]
        ELSE [raised |-> "none",
              instance |-> ApplyItems(DefaultParameter, val_dict.m, Len(val_dict.m))]

(***************************************************************************)
(* readSegmentIdsAndLabelsFromDatasetFile.                                 *)
(***************************************************************************)
\* a dataset.json without a "labels" field
NoLabels == [present |-> FALSE, members |-> <<>>]

\* the dict json.loads builds from the members of an object: a repeated key
\* keeps its first place and takes its last value
RECURSIVE DictOf(_)
DictOf(m) ==
    IF Len(m) = 0 THEN <<>>
    ELSE LET before == DictOf(SubSeq(m, 1, Len(m) - 1))
             last == m[Len(m)]
         IN  IF HasKey(before, last[1])
             THEN [i \in 1..Len(before) |->
                     IF before[i][1] = last[1] THEN last ELSE before[i]]
             ELSE Append(before, last)

\* the pair built with the label first
SegmentPairSwapped(k, v) == <<k, "Segment_" \o ToString(v)>>

\* (f"Segment_{v}", k)
SegmentPair(k, v) == <<"Segment_" \o ToString(v), k>>

\* the outcome: what it raised, whether it returned None, the list
readSegmentIdsAndLabelsFromDatasetFile(p, file) ==
    IF ~_isDatasetPathValid(p)
    THEN [raised |-> "none", none |-> TRUE, pairs |-> <<>>]
    ELSE IF ~file.present
    THEN [raised |-> "AttributeError", none |-> FALSE, pairs |-> <<>>]
    ELSE LET labels == DictOf(file.members)
         IN  [raised |-> "none", none |-> FALSE,
              pairs |-> [i \in 1..Len(labels) |-> SegmentPair(labels[i][1], labels[i][2])]]

(***************************************************************************)
(* The values the model draws from.                                        *)
(***************************************************************************)
\* the characters typed into the folds field
FoldsAlphabet == {"0", "1", ",", " "}

CheckPointNames == {"", "best.pth"}

\* the folds a training leaves on disk, as fold_<i>
TrainedFolds == {0, 1}

\* the checkpoint files a training leaves in a fold directory
CheckPointFiles == {"checkpoint_final.pth", "best.pth"}

\* the model root, an ancestor of it and a directory that does not exist
ModelPaths == {".", "m", "x"}

\* names of the configuration folder: 3 parts and 2 parts
ConfigurationNames == {"T__P__C", "T__P"}

StepSizes == {"0.5", "1.0"}

ProcessCounts == {1, 2}

\* the keys toSettings and fromSettings are called with; "" is the default key
Keys == {"", "K"}

StoreKeys == {EffectiveKey(key) : key \in Keys}

\* the parameters persisted: every field at its default or at another value
SettingsParameters ==
    [folds : {"", "0,1"},
     device : {"cuda", "mps"},
     stepSize : {"0.5", "1.0"},
     disableTta : BOOLEAN,
     nProcessPreprocessing : {1, 2},
     nProcessSegmentationExport : {1},
     checkPointName : {"", "best.pth"},
     modelPath : {PathOf(""), PathOf("m/D")}]

\* texts found under a key that toSettings did not write
StoredSamples ==
    {Malformed,
     JArray,
     JObject(<< <<"folds", JString("0,1")>>, <<"colour", JString("red")>> >>),
     JObject(<< <<"device", JInt(5)>>, <<"checkPointName", JString("best.pth")>> >>),
     JObject(<< <<"modelPath", JString("m/D")>>, <<"disableTta", JBool(FALSE)>> >>),
     JObject(<< <<"modelPath", JObject(<< <<"_path", JString("m//D/")>> >>)>> >>),
     JObject(<< <<"folds", JObject(<< <<"_path", JInt(5)>> >>)>> >>)}

LabelNames == {"bone", "liver"}
LabelIds == {1, 2}

RECURSIVE MembersUpTo(_)
MembersUpTo(n) ==
    IF n = 0 THEN {<<>>}
    ELSE LET shorter == MembersUpTo(n - 1)
         IN  shorter \cup {Append(m, <<k, v>>) : m \in shorter, k \in LabelNames, v \in LabelIds}

\* dataset.json without a "labels" field, or with up to MaxLabels members in it
LabelsFiles ==
    {NoLabels} \cup {[present |-> TRUE, members |-> m] : m \in MembersUpTo(MaxLabels)}

InDirs == {"in"}
OutDirs == {"/tmp/out"}

Machines ==
    {[cuda |-> TRUE, mps |-> FALSE],
     [cuda |-> FALSE, mps |-> TRUE],
     [cuda |-> FALSE, mps |-> FALSE]}

\* modelFolder/datasetName/<configuration>/dataset.json and fold_<i>/<checkpoint>
ConfigurationDir(name) == "m/D/" \o name

DatasetFile(name) == ConfigurationDir(name) \o "/dataset.json"

FoldDirectory(name, i) == ConfigurationDir(name) \o "/" \o FoldName(i)

TrainedModel(name) ==
    {".", "m", "m/D", ConfigurationDir(name), DatasetFile(name)}
    \cup {FoldDirectory(name, i) : i \in TrainedFolds}
    \cup {FoldDirectory(name, i) \o "/" \o f : i \in TrainedFolds, f \in CheckPointFiles}

(***************************************************************************)
(* State.                                                                  *)
(***************************************************************************)
NoCall ==
    [op |-> "none", raised |-> "none", valid |-> FALSE, reason |-> NoReason,
     args |-> <<>>, inDir |-> "", outDir |-> "", key |-> "",
     instance |-> DefaultParameter, none |-> FALSE, pairs |-> <<>>]


Init ==
    /\ self = DefaultParameter
    /\ disk \in {TrainedModel(name) : name \in ConfigurationNames}
    /\ labelsFile = NoLabels
    /\ machine = [cuda |-> TRUE, mps |-> FALSE]
    /\ store = [k \in StoreKeys |-> Absent]
    /\ ret = NoCall

(***************************************************************************)
(* Field assignments (the UI editing the parameter pack).                  *)
(***************************************************************************)
\* the folds text is edited a character at a time, or cleared
SetFolds ==
    \E text \in {self.folds \o c : c \in FoldsAlphabet} \cup {""} :
        /\ Len(text) <= MaxFoldsLen
        /\ text # self.folds
        /\ self' = [self EXCEPT !.folds = text]
        /\ ret' = NoCall
        /\ UNCHANGED <<disk, labelsFile, machine, store>>

SetCheckPointName ==
    \E name \in CheckPointNames :
        /\ name # self.checkPointName
        /\ self' = [self EXCEPT !.checkPointName = name]
        /\ ret' = NoCall
        /\ UNCHANGED <<disk, labelsFile, machine, store>>

SetModelPath ==
    \E path \in ModelPaths :
        /\ PathOf(path) # self.modelPath
        /\ self' = [self EXCEPT !.modelPath = PathOf(path)]
        /\ ret' = NoCall
        /\ UNCHANGED <<disk, labelsFile, machine, store>>

SetDevice ==
    \E device \in Devices :
        /\ device # self.device
        /\ self' = [self EXCEPT !.device = device]
        /\ ret' = NoCall
        /\ UNCHANGED <<disk, labelsFile, machine, store>>

SetStepSize ==
    \E stepSize \in StepSizes :
        /\ stepSize # self.stepSize
        /\ self' = [self EXCEPT !.stepSize = stepSize]
        /\ ret' = NoCall
        /\ UNCHANGED <<disk, labelsFile, machine, store>>

SetDisableTta ==
    /\ self' = [self EXCEPT !.disableTta = ~self.disableTta]
    /\ ret' = NoCall
    /\ UNCHANGED <<disk, labelsFile, machine, store>>

SetNProcessPreprocessing ==
    \E n \in ProcessCounts :
        /\ n # self.nProcessPreprocessing
        /\ self' = [self EXCEPT !.nProcessPreprocessing = n]
        /\ ret' = NoCall
        /\ UNCHANGED <<disk, labelsFile, machine, store>>

SetNProcessSegmentationExport ==
    \E n \in ProcessCounts :
        /\ n # self.nProcessSegmentationExport
        /\ self' = [self EXCEPT !.nProcessSegmentationExport = n]
        /\ ret' = NoCall
        /\ UNCHANGED <<disk, labelsFile, machine, store>>

(***************************************************************************)
(* The model directory changing on disk.                                   *)
(***************************************************************************)
RemoveDatasetFile ==
    \E name \in ConfigurationNames :
        LET file == DatasetFile(name)
        IN  /\ file \in disk
            /\ disk' = disk \ {file}
            /\ ret' = NoCall
            /\ UNCHANGED <<self, labelsFile, machine, store>>

\* a fold directory is removed with the files in it
RemoveFoldDirectory ==
    \E name \in ConfigurationNames, i \in TrainedFolds :
        LET dir == FoldDirectory(name, i)
        IN  /\ dir \in disk
            /\ disk' = disk \ ({dir} \cup {dir \o "/" \o f : f \in CheckPointFiles})
            /\ ret' = NoCall
            /\ UNCHANGED <<self, labelsFile, machine, store>>

RemoveCheckPointFile ==
    \E name \in ConfigurationNames, i \in TrainedFolds, f \in CheckPointFiles :
        LET file == FoldDirectory(name, i) \o "/" \o f
        IN  /\ file \in disk
            /\ disk' = disk \ {file}
            /\ ret' = NoCall
            /\ UNCHANGED <<self, labelsFile, machine, store>>

(***************************************************************************)
(* Calls.                                                                  *)
(***************************************************************************)
CallIsValid ==
    LET v == isValid(self)
    IN  /\ ret' = [NoCall EXCEPT !.op = "isValid", !.raised = v.raised,
                                 !.valid = v.valid, !.reason = v.reason]
        /\ UNCHANGED <<self, disk, labelsFile, machine, store>>

CallAsArgList ==
    \E inDir \in InDirs, outDir \in OutDirs :
        LET r == asArgList(self, PathOf(inDir), PathOf(outDir), machine)
        IN  /\ ret' = [NoCall EXCEPT !.op = "asArgList", !.raised = r.raised,
                                     !.reason = r.reason, !.args = r.args,
                                     !.inDir = PathOf(inDir), !.outDir = PathOf(outDir)]
            /\ UNCHANGED <<self, disk, labelsFile, machine, store>>

Next ==
    \/ SetFolds
    \/ SetCheckPointName
    \/ SetModelPath
    \/ RemoveDatasetFile
    \/ RemoveFoldDirectory
    \/ RemoveCheckPointFile
    \/ CallIsValid
    \/ CallAsArgList

Spec == Init /\ [][Next]_vars

(***************************************************************************)
(* The argument list on the machines it may run on: every field edited, a  *)
(* trained model on disk.                                                  *)
(***************************************************************************)
InitArgs ==
    /\ self = DefaultParameter
    /\ disk \in {TrainedModel(name) : name \in ConfigurationNames}
    /\ labelsFile = NoLabels
    /\ machine \in Machines
    /\ store = [k \in StoreKeys |-> Absent]
    /\ ret = NoCall

NextArgs ==
    \/ SetFolds
    \/ SetCheckPointName
    \/ SetDevice
    \/ SetStepSize
    \/ SetDisableTta
    \/ SetNProcessPreprocessing
    \/ SetNProcessSegmentationExport
    \/ CallAsArgList

SpecArgs == InitArgs /\ [][NextArgs]_vars

(***************************************************************************)
(* Persistence: a parameter, the settings store, the texts other writers   *)
(* leave in it.                                                            *)
(***************************************************************************)
CallToSettings ==
    \E key \in Keys :
        /\ store' = [store EXCEPT ![EffectiveKey(key)] = SettingsText(self)]
        /\ ret' = [NoCall EXCEPT !.op = "toSettings", !.key = key]
        /\ UNCHANGED <<self, disk, labelsFile, machine>>

CallFromSettings ==
    \E key \in Keys :
        LET r == fromSettings(store, key)
        IN  /\ ret' = [NoCall EXCEPT !.op = "fromSettings", !.key = key,
                                     !.raised = r.raised, !.instance = r.instance]
            /\ UNCHANGED <<self, disk, labelsFile, machine, store>>

\* the store written by something else than toSettings
WriteStore ==
    \E k \in StoreKeys, text \in StoredSamples \cup {Absent} :
        /\ text # store[k]
        /\ store' = [store EXCEPT ![k] = text]
        /\ ret' = NoCall
        /\ UNCHANGED <<self, disk, labelsFile, machine>>

InitSettings ==
    /\ self \in SettingsParameters
    /\ disk = TrainedModel("T__P__C")
    /\ labelsFile = NoLabels
    /\ machine = [cuda |-> TRUE, mps |-> FALSE]
    /\ store = [k \in StoreKeys |-> Absent]
    /\ ret = NoCall

NextSettings ==
    \/ CallToSettings
    \/ CallFromSettings
    \/ WriteStore

SpecSettings == InitSettings /\ [][NextSettings]_vars

(***************************************************************************)
(* The labels of the dataset file.                                         *)
(***************************************************************************)
CallReadSegmentIdsAndLabels ==
    LET r == readSegmentIdsAndLabelsFromDatasetFile(self, labelsFile)
    IN  /\ ret' = [NoCall EXCEPT !.op = "readSegmentIdsAndLabelsFromDatasetFile",
                                 !.raised = r.raised, !.none = r.none, !.pairs = r.pairs]
        /\ UNCHANGED <<self, disk, labelsFile, machine, store>>

InitLabels ==
    /\ self = DefaultParameter
    /\ disk = TrainedModel("T__P__C")
    /\ labelsFile \in LabelsFiles
    /\ machine = [cuda |-> TRUE, mps |-> FALSE]
    /\ store = [k \in StoreKeys |-> Absent]
    /\ ret = NoCall

NextLabels ==
    \/ SetModelPath
    \/ RemoveDatasetFile
    \/ CallReadSegmentIdsAndLabels

SpecLabels == InitLabels /\ [][NextLabels]_vars

(***************************************************************************)
(* The vocabulary of the claims, read off the disk and the fields.         *)
(***************************************************************************)
\* a dataset.json is found under modelPath
DatasetFound == RGlob(self.modelPath, "dataset.json") # {}

\* the folder holding the dataset.json that was found
TheConfigurationFolder == PathParent(CHOOSE e \in RGlob(self.modelPath, "dataset.json") : TRUE)

\* the folds field reads as a comma separated list of integers, or is empty
FoldsReadable ==
    \/ self.folds = ""
    \/ \A k \in 1..Len(Split(Strip(self.folds), ",")) :
          IsIntText(Split(Strip(self.folds), ",")[k])

\* the fold indices the folds field requests; empty requests fold 0
RequestedFolds ==
    IF self.folds = "" THEN {0}
    ELSE {IntOf(Split(Strip(self.folds), ",")[k]) :
            k \in 1..Len(Split(Strip(self.folds), ","))}

TheCheckPointFile ==
    IF self.checkPointName = "" THEN "checkpoint_final.pth" ELSE self.checkPointName

FoldDirectoryExists(i) ==
    (TheConfigurationFolder \o "/fold_" \o ToString(i)) \in disk

FoldCheckPointExists(i) ==
    (TheConfigurationFolder \o "/fold_" \o ToString(i) \o "/" \o TheCheckPointFile) \in disk

NameHasThreeParts == Len(Split(PathName(TheConfigurationFolder), "__")) = 3

AllChecksPass ==
    /\ DatasetFound
    /\ FoldsReadable
    /\ \A i \in RequestedFolds : FoldDirectoryExists(i)
    /\ \A i \in RequestedFolds : FoldCheckPointExists(i)
    /\ NameHasThreeParts

IsValidReturned == ret.op = "isValid" /\ ret.raised = "none"

Listed == {ret.reason.folds[k] : k \in 1..Len(ret.reason.folds)}

(***************************************************************************)
(* C1: asArgList raises the configuration error (RuntimeError, carrying    *)
(* the reason of isValid) whenever isValid() returns false, and returns a  *)
(* list without raising only when isValid() returns true.                  *)
(***************************************************************************)
AsArgListRaisesWhenInvalid ==
    ret.op = "asArgList" =>
        LET v == isValid(self)
        IN  /\ (v.raised = "none" /\ ~v.valid) =>
                  (ret.raised = "RuntimeError" /\ ret.reason = v.reason /\ ret.args = <<>>)
            /\ ret.raised = "none" => (v.raised = "none" /\ v.valid)
            /\ ret.raised = "RuntimeError" => (v.raised = "none" /\ ~v.valid)

\* asArgList refused a configuration whose only flaw is the folder name
AsArgListRefusedBadFolderName ==
    /\ ret.op = "asArgList"
    /\ ret.raised = "RuntimeError"
    /\ ret.reason = ConfigurationFolderReason

\* the other three ways validity fails, each refused by asArgList
AsArgListRefusedMissingDataset ==
    /\ ret.op = "asArgList" /\ ret.raised = "RuntimeError"
    /\ ret.reason.kind = "Dataset.json file is missing"

AsArgListRefusedMissingFold ==
    /\ ret.op = "asArgList" /\ ret.raised = "RuntimeError"
    /\ ret.reason.kind = "Model folder is missing the following folds"

AsArgListRefusedInvalidWeights ==
    /\ ret.op = "asArgList" /\ ret.raised = "RuntimeError"
    /\ ret.reason.kind = "Following model folds don't contain weights"

(***************************************************************************)
(* C2: isValid() returns (true, "") if and only if the four checks pass,   *)
(* and in every other case returns false with a non-empty reason.          *)
(***************************************************************************)
IsValidIffAllChecksPass ==
    ret.op = "isValid" =>
        IF AllChecksPass
        THEN ret.raised = "none" /\ ret.valid /\ ret.reason = NoReason
        ELSE ret.raised = "none" /\ ~ret.valid /\ ret.reason.kind # ""

(***************************************************************************)
(* C3: isValid() never throws, whatever the fields hold.                   *)
(***************************************************************************)
IsValidNeverRaises == ret.op = "isValid" => ret.raised = "none"

\* what holds of the code: the equivalence of C2 for the calls that return
IsValidIffAllChecksPassWhenReturned ==
    IsValidReturned =>
        IF AllChecksPass
        THEN ret.valid /\ ret.reason = NoReason
        ELSE ~ret.valid /\ ret.reason.kind # ""

(***************************************************************************)
(* C7: when isValid() returns a reason, it is the reason of the earliest   *)
(* failing check in the order dataset.json, fold directories, fold         *)
(* checkpoints, folder name, whatever later checks would fail too.         *)
(***************************************************************************)
EarliestFailingCheck ==
    IF ~DatasetFound THEN "Dataset.json file is missing"
    ELSE IF \E i \in RequestedFolds : ~FoldDirectoryExists(i)
         THEN "Model folder is missing the following folds"
    ELSE IF \E i \in RequestedFolds : ~FoldCheckPointExists(i)
         THEN "Following model folds don't contain weights"
    ELSE IF ~NameHasThreeParts THEN "Invalid nnUNet configuration folder"
    ELSE ""

IsValidShortCircuitsInOrder ==
    (IsValidReturned /\ ~ret.valid) => ret.reason.kind = EarliestFailingCheck

\* a fold directory is missing and the folder name is wrong: the fold is reported
TwoChecksFailFirstReported ==
    /\ IsValidReturned
    /\ DatasetFound
    /\ \E i \in RequestedFolds : ~FoldDirectoryExists(i)
    /\ ~NameHasThreeParts
    /\ ret.reason.kind = "Model folder is missing the following folds"

(***************************************************************************)
(* C8: with dataset.json found, the missing-folds reason lists exactly the *)
(* requested folds whose directory does not exist, the invalid-weights     *)
(* reason (given when no directory is missing) exactly the requested folds *)
(* whose folder lacks the checkpoint file; an empty folds field requests   *)
(* exactly fold 0.                                                         *)
(***************************************************************************)
ReportedFoldsAreExact ==
    (IsValidReturned /\ DatasetFound) =>
        /\ ret.reason.kind = "Model folder is missing the following folds" =>
              Listed = {i \in RequestedFolds : ~FoldDirectoryExists(i)}
        /\ ret.reason.kind = "Following model folds don't contain weights" =>
              /\ \A i \in RequestedFolds : FoldDirectoryExists(i)
              /\ Listed = {i \in RequestedFolds : ~FoldCheckPointExists(i)}
        /\ (\E i \in RequestedFolds : ~FoldDirectoryExists(i)) =>
              ret.reason.kind = "Model folder is missing the following folds"
        /\ self.folds = "" => Listed \subseteq {0}

\* two folds requested, one directory removed: only that one is listed
OneOfTwoFoldsReported ==
    /\ IsValidReturned
    /\ RequestedFolds = {0, 1}
    /\ ret.reason.kind = "Model folder is missing the following folds"
    /\ Listed = {1}

(***************************************************************************)
(* The argument list.                                                      *)
(***************************************************************************)
AsArgListReturned == ret.op = "asArgList" /\ ret.raised = "none"

\* GPU acceleration is available on the running machine, as asArgList asks
\* it: torch.cuda.is_available().  A machine whose only accelerator is mps
\* counts as having none.
GpuAccelerationAvailable == CudaIsAvailable(machine)

\* the position of the flag in the returned list, 0 when it is not there
FlagPosition(flag) ==
    IF \E k \in 1..Len(ret.args) : ret.args[k] = StrArg(flag)
    THEN CHOOSE k \in 1..Len(ret.args) : ret.args[k] = StrArg(flag)
    ELSE 0

\* the element that follows the flag
ValueAfter(flag) == ret.args[FlagPosition(flag) + 1]

DevicePassedAsConfigured ==
    /\ AsArgListReturned
    /\ self.device = "mps"
    /\ GpuAccelerationAvailable
    /\ ValueAfter("-device") = StrArg("mps")

(***************************************************************************)
(* C9: for a valid configuration asArgList returns exactly                 *)
(* -i inDir -o outDir -d <name of the parent of the configuration folder>  *)
(* -tr <part 1> -p <part 2> -c <part 3> -f <one entry per requested fold,  *)
(* in order; 0 when folds is empty> -npp n -nps n -step_size s             *)
(* -device <device> -chk <checkPointName or checkpoint_final.pth>, and     *)
(* --disable_tta last if and only if disableTta is set.                    *)
(***************************************************************************)
\* the folds field, piece by piece, as the decimal text of each index
RequestedFoldTexts ==
    IF self.folds = "" THEN <<StrArg("0")>>
    ELSE [k \in 1..Len(Split(Strip(self.folds), ",")) |->
            StrArg(ToString(IntOf(Split(Strip(self.folds), ",")[k])))]

ExpectedArgList(device) ==
    <<StrArg("-i"), StrArg(ret.inDir), StrArg("-o"), StrArg(ret.outDir),
      StrArg("-d"), StrArg(PathName(PathParent(TheConfigurationFolder))),
      StrArg("-tr"), StrArg(Split(PathName(TheConfigurationFolder), "__")[1]),
      StrArg("-p"), StrArg(Split(PathName(TheConfigurationFolder), "__")[2]),
      StrArg("-c"), StrArg(Split(PathName(TheConfigurationFolder), "__")[3]),
      StrArg("-f")>>
    \o RequestedFoldTexts
    \o <<StrArg("-npp"), IntArg(self.nProcessPreprocessing),
         StrArg("-nps"), IntArg(self.nProcessSegmentationExport),
         StrArg("-step_size"), FloatArg(self.stepSize),
         StrArg("-device"), StrArg(device),
         StrArg("-chk"), StrArg(TheCheckPointFile)>>
    \o (IF self.disableTta THEN <<StrArg("--disable_tta")>> ELSE <<>>)

ArgListIsTheFlatVector ==
    AsArgListReturned =>
        ret.args = ExpectedArgList(IF GpuAccelerationAvailable THEN self.device ELSE "cpu")

\* two folds, a named checkpoint, test-time augmentation enabled: 25 elements
TwoFoldVectorReturned ==
    /\ AsArgListReturned
    /\ self.folds = "1,0"
    /\ self.checkPointName = "best.pth"
    /\ ~self.disableTta
    /\ Len(ret.args) = 25
    /\ ret.args[14] = StrArg("1") /\ ret.args[15] = StrArg("0")

\* the default folds field gives the single entry 0 and the flag comes last
DefaultVectorReturned ==
    /\ AsArgListReturned
    /\ self.folds = ""
    /\ self.disableTta
    /\ ret.args[13] = StrArg("-f") /\ ret.args[14] = StrArg("0")
    /\ ret.args[15] = StrArg("-npp")
    /\ ret.args[Len(ret.args)] = StrArg("--disable_tta")

(***************************************************************************)
(* C4: fromSettings never fails, whatever is stored under the key; every   *)
(* offending entry is skipped, its field keeps the default, and every      *)
(* well-formed entry is applied.                                           *)
(***************************************************************************)
FromSettingsNeverFails ==
    ret.op = "fromSettings" => ret.raised = "none"

\* what holds of the code: a stored JSON object is applied entry by entry
FromSettingsAppliesWellFormedEntries ==
    (ret.op = "fromSettings" /\ ret.raised = "none"
        /\ store[EffectiveKey(ret.key)]
             = JObject(<< <<"device", JInt(5)>>, <<"checkPointName", JString("best.pth")>> >>))
    => ret.instance = [DefaultParameter EXCEPT !.checkPointName = "best.pth"]

(***************************************************************************)
(* C5: toSettings followed by fromSettings with the same key (the default  *)
(* key when it is empty) gives an object whose fields all equal those of   *)
(* the saved one, modelPath being stored as {"_path": str} and restored as *)
(* a path.                                                                 *)
(***************************************************************************)
\* the value under the key of the last fromSettings is what toSettings wrote
ReadBackOwnSettings ==
    /\ ret.op = "fromSettings"
    /\ store[EffectiveKey(ret.key)].t = "object"
    /\ store[EffectiveKey(ret.key)] = SettingsText(self)

SettingsRoundTrip ==
    ReadBackOwnSettings =>
        /\ ret.raised = "none"
        /\ ret.instance = self
        /\ Lookup(store[EffectiveKey(ret.key)].m, "modelPath")
             = JObject(<< <<"_path", JString(self.modelPath)>> >>)
        /\ Lookup(Loads(store[EffectiveKey(ret.key)]).m, "modelPath").t = "Path"

\* no field at its default, saved and read back under the default key
RoundTripUnderDefaultKey ==
    /\ ReadBackOwnSettings
    /\ ret.key = ""
    /\ self.modelPath = "m/D"
    /\ self.folds = "0,1" /\ self.device = "mps" /\ self.stepSize = "1.0"
    /\ ~self.disableTta /\ self.nProcessPreprocessing = 2
    /\ self.checkPointName = "best.pth"
    /\ ret.instance.modelPath = "m/D"

RoundTripUnderGivenKey ==
    /\ ReadBackOwnSettings
    /\ ret.key = "K"
    /\ self.modelPath = "m/D"
    /\ ret.instance = self

(***************************************************************************)
(* C10: readSegmentIdsAndLabelsFromDatasetFile returns nothing when no     *)
(* dataset.json is found under modelPath; otherwise, for a labels mapping  *)
(* of names to integer ids, exactly one pair ("Segment_<id>", name) per    *)
(* entry of the mapping, in the order of the file.                         *)
(***************************************************************************)
ReadLabels == ret.op = "readSegmentIdsAndLabelsFromDatasetFile"

\* the label names of the file are distinct: its members are the mapping
DistinctLabelNames ==
    \A i, j \in 1..Len(labelsFile.members) :
        labelsFile.members[i][1] = labelsFile.members[j][1] => i = j

LabelNamesInFile == {labelsFile.members[i][1] : i \in 1..Len(labelsFile.members)}

SegmentPairsFollowTheFile ==
    ReadLabels =>
        /\ ~DatasetFound => (ret.raised = "none" /\ ret.none /\ ret.pairs = <<>>)
        /\ (DatasetFound /\ labelsFile.present) =>
              /\ ret.raised = "none" /\ ~ret.none
              /\ Len(ret.pairs) = Cardinality(LabelNamesInFile)
              /\ DistinctLabelNames =>
                    ret.pairs = [i \in 1..Len(labelsFile.members) |->
                                   <<"Segment_" \o ToString(labelsFile.members[i][2]),
                                     labelsFile.members[i][1]>>]

\* {"labels": {"bone": 1, "liver": 2}}
BoneAndLiverRead ==
    /\ ReadLabels
    /\ labelsFile.members = << <<"bone", 1>>, <<"liver", 2>> >>
    /\ ret.pairs = << <<"Segment_1", "bone">>, <<"Segment_2", "liver">> >>

NothingReadWithoutDataset ==
    /\ ReadLabels
    /\ ~DatasetFound
    /\ labelsFile.present
    /\ ret.none

====
